---- MODULE Spec2Model ----
(***************************************************************************)
(* A model of the retrieval-ranking-citation pipeline of mbouassa/tenex:   *)
(* the chunker and its metadata attachment (services/chunker.py), the      *)
(* vector-store ingestion and search (services/vector_store.py), the       *)
(* reranker adapter (services/reranker.py) and the answer pipeline         *)
(* (routers/chat.py).                                                      *)
(*                                                                         *)
(* Text is a sequence of one-character strings.  Offsets are Python's      *)
(* 0-based offsets; slices follow Python's slice semantics.                *)
(***************************************************************************)
EXTENDS Integers, Sequences, FiniteSets, TLC

VARIABLES
    \* ---- chunk_text (services/chunker.py) ----
    cpc,            \* position in chunk_text: "call", "loop", "done"
    given,          \* observation: the text argument as it was passed
    text,           \* the text argument, then the stripped text
    chunk_size,     \* argument
    chunk_overlap,  \* argument
    start,          \* the scan offset
    chunks,         \* the list of chunks built so far / returned
    spans,          \* observation: <<start, end>> of each loop iteration
    \* ---- process_files_to_chunks (services/chunker.py) ----
    pf,             \* the invocation: its arguments, loop position and output
    \* ---- store_chunks / ingest_folder (services/vector_store.py) ----
    collections,    \* Qdrant: collection name -> [exists, points]
    runs,           \* one record per store_chunks invocation
    history,        \* observation: per collection name, what ran on it
    \* ---- rerank_chunks (services/reranker.py) ----
    rr,             \* the invocation: its arguments, the service's response,
                    \* the list returned and the calls made
    \* ---- search_chunks (services/vector_store.py) ----
    sq,             \* the invocation: its arguments, what the index ranked
                    \* and read, the list returned and the calls made
    \* ---- ask_question (routers/chat.py) ----
    apc,            \* position in ask_question
    question,       \* body.question and body.folder_id
    initial_chunks, \* result of search_chunks
    reranked_chunks,\* result of rerank_chunks
    context,        \* rendered context: the sequence of labelled blocks
    doc_map,        \* reference map: number -> document
    answer,         \* generated answer text
    response,       \* what the endpoint returned / raised
    calls           \* observation: external calls made, in order, each
                    \* [svc, outcome]: "ok", "fault" (upstream failure) or
                    \* "notfound" (the collection does not exist)

chunkVars == <<cpc, given, text, chunk_size, chunk_overlap, start, chunks, spans>>
storeVars == <<collections, runs, history>>
askVars   == <<apc, question, initial_chunks, reranked_chunks, context,
               doc_map, answer, response, calls>>
fileVars  == <<pf>>
rerankVars == <<rr>>
searchVars == <<sq>>
vars      == <<chunkVars, storeVars, askVars, fileVars, rerankVars, searchVars>>

(***************************************************************************)
(* Bounds of the model.                                                    *)
(***************************************************************************)
MaxLen       == 7    \* longest text given to chunk_text
MaxChunkSize == 5    \* largest chunk_size
MaxMarks     == 3    \* most non-letter characters in a text
MaxIter      == 8    \* most loop iterations of chunk_text followed
WideChunkSize == 10  \* a chunk_size whose search region holds a sentence mark
WideLen      == 12   \* longest text chunked with WideChunkSize
WideHead     == 6    \* leading characters of such a text that are letters

Alphabet   == {"a", " ", "."}
Whitespace == {" ", "\n"}

(***************************************************************************)
(* Python built-ins used by the code.                                      *)
(***************************************************************************)
\* Python's clamping of one slice bound for a sequence of length n.
SliceIndex(i, n) ==
    IF i < 0 THEN (IF i + n < 0 THEN 0 ELSE i + n)
    ELSE IF i > n THEN n ELSE i

\* s[lo:hi]
PySlice(s, lo, hi) ==
    LET a == SliceIndex(lo, Len(s))
        b == SliceIndex(hi, Len(s))
    IN  IF a >= b THEN <<>> ELSE SubSeq(s, a + 1, b)

\* s.lstrip(): only the leading whitespace removed.
Strip_LeftOnly(s) ==
    LET keep == {i \in 1..Len(s) : s[i] \notin Whitespace}
    IN  IF keep = {} THEN <<>>
        ELSE SubSeq(s, CHOOSE i \in keep : \A j \in keep : i <= j, Len(s))

\* s.strip()
Strip(s) ==
    LET keep == {i \in 1..Len(s) : s[i] \notin Whitespace}
    IN  IF keep = {} THEN <<>>
        ELSE LET lo == CHOOSE i \in keep : \A j \in keep : i <= j
                 hi == CHOOSE i \in keep : \A j \in keep : i >= j
             IN  SubSeq(s, lo, hi)

\* s.rfind(pat): the highest 0-based offset at which pat occurs in s, or -1.
Rfind(s, pat) ==
    LET hits == {i \in 0..(Len(s) - Len(pat)) :
                    SubSeq(s, i + 1, i + Len(pat)) = pat}
    IN  IF hits = {} THEN -1
        ELSE CHOOSE i \in hits : \A j \in hits : i >= j

\* max(...) of a non-empty set of integers
Max(S) == CHOOSE x \in S : \A y \in S : x >= y

(***************************************************************************)
(* chunk_text                                                              *)
(***************************************************************************)
\* A search region of the last tenth of the window.
SearchWidth_Tenth(cs) == cs \div 10

\* int(chunk_size * 0.2)
SearchWidth(cs) == cs \div 5

\* The six sentence-ending marks looked for in the search region.
SentenceMarks ==
    { <<".", " ">>, <<"!", " ">>, <<"?", " ">>,
      <<".", "\n">>, <<"!", "\n">>, <<"?", "\n">> }

\* The end offset of the chunk that starts at st.
ChunkEnd(txt, st, cs) ==
    LET end0          == st + cs
        search_start  == end0 - SearchWidth(cs)
        search_region == PySlice(txt, search_start, end0)
        last_period   == Max({Rfind(search_region, m) : m \in SentenceMarks})
        last_space    == Rfind(search_region, <<" ">>)
    IN  IF end0 < Len(txt)
        THEN IF last_period # -1 THEN search_start + last_period + 1
             ELSE IF last_space # -1 THEN search_start + last_space
             ELSE end0
        ELSE end0

\* A scan that resumes one character after the end of the chunk.
NextStart_Gap(end, overlap) == end + 1

\* A scan that resumes at the end of the chunk, sharing nothing with it.
NextStart_NoOverlap(end, overlap) == end

\* start = end - chunk_overlap
NextStart(end, overlap) == end - overlap

\* A loop that appends every chunk, empty or not.
Emits_Always(chunk) == TRUE

\* if chunk: chunks.append(chunk)
Emits(chunk) == chunk # <<>>

\* if start >= len(text) - chunk_overlap: break
BreakGuard(st, txt, overlap) == st >= Len(txt) - overlap

\* All texts of length k with at most MaxMarks non-letter characters.
TextsOfLen(k) ==
    { t \in [1..k -> Alphabet] :
        Cardinality({i \in 1..k : t[i] # "a"}) <= MaxMarks }

\* All texts of length at most n with at most MaxMarks non-letter characters.
Texts(n) == UNION { TextsOfLen(k) : k \in 0..n }

\* The texts longer than WideChunkSize, up to WideLen characters, that begin
\* with WideHead letters and go on with letters and at most MaxMarks spaces,
\* newlines and punctuation marks.
WideAlphabet == Alphabet \cup {"!", "\n"}
WideTexts ==
    { [i \in 1..WideHead |-> "a"] \o t :
        t \in UNION { { u \in [1..k -> WideAlphabet] :
                          Cardinality({i \in 1..k : u[i] # "a"}) <= MaxMarks } :
                        k \in (WideChunkSize + 1 - WideHead)..(WideLen - WideHead) } }

ChunkIdle ==
    /\ cpc = "idle"
    /\ given = <<>>
    /\ text = <<>>
    /\ chunk_size = 0
    /\ chunk_overlap = 0
    /\ start = 0
    /\ chunks = <<>>
    /\ spans = <<>>

\* A call chunk_text(text, chunk_size, chunk_overlap) with valid parameters:
\* every short text with every small chunk_size, and the longer texts with a
\* chunk_size wide enough for the search region to hold a sentence mark.
ChunkInit ==
    /\ cpc = "call"
    /\ \/ /\ text \in Texts(MaxLen)
          /\ chunk_size \in 1..MaxChunkSize
       \/ /\ text \in WideTexts
          /\ chunk_size = WideChunkSize
    /\ chunk_overlap \in 0..(chunk_size - 1)
    /\ given = text
    /\ start = 0
    /\ chunks = <<>>
    /\ spans = <<>>

\* Lines 21-32: the empty text, the short text, or entry into the scan loop.
ChunkEnter ==
    /\ cpc = "call"
    /\ LET stripped == Strip(text)
       IN  IF stripped = <<>>
           THEN /\ cpc' = "done"
                /\ chunks' = <<>>
                /\ text' = text
           ELSE IF Len(stripped) <= chunk_size
           THEN /\ cpc' = "done"
                /\ chunks' = <<stripped>>
                /\ text' = stripped
           ELSE /\ cpc' = "loop"
                /\ chunks' = <<>>
                /\ text' = stripped
    /\ start' = 0
    /\ UNCHANGED <<given, chunk_size, chunk_overlap, spans>>
    /\ UNCHANGED <<storeVars, askVars, fileVars, rerankVars, searchVars>>

\* Lines 34-72: one iteration of the while loop, up to the next loop test.
ChunkIter ==
    /\ cpc = "loop"
    /\ start < Len(text)
    /\ Len(spans) < MaxIter
    /\ LET end   == ChunkEnd(text, start, chunk_size)
           chunk == Strip(PySlice(text, start, end))
           nxt   == NextStart(end, chunk_overlap)
       IN  /\ chunks' = IF Emits(chunk) THEN Append(chunks, chunk) ELSE chunks
           /\ spans' = Append(spans, <<start, end>>)
           /\ start' = nxt
           /\ cpc' = IF BreakGuard(nxt, text, chunk_overlap) \/ ~(nxt < Len(text))
                     THEN "done" ELSE "loop"
    /\ UNCHANGED <<given, text, chunk_size, chunk_overlap>>
    /\ UNCHANGED <<storeVars, askVars, fileVars, rerankVars, searchVars>>

ChunkNext == ChunkEnter \/ ChunkIter

\* A call chunk_text(text, chunk_size, chunk_overlap) with any parameters: the
\* function checks none of them.
ChunkInitAny ==
    /\ cpc = "call"
    /\ text \in Texts(MaxLen)
    /\ chunk_size \in 0..MaxChunkSize
    /\ chunk_overlap \in 0..MaxChunkSize
    /\ given = text
    /\ start = 0
    /\ chunks = <<>>
    /\ spans = <<>>

(***************************************************************************)
(* create_chunks_with_metadata and process_files_to_chunks                 *)
(***************************************************************************)
MaxDocs == 3    \* most documents in one list of processed files

\* The while loop of chunk_text from offset st, with acc the chunks so far
\* and n the iterations done: the list returned, or no return within MaxIter
\* iterations.
RECURSIVE ScanFrom(_, _, _, _, _, _)
ScanFrom(txt, cs, ov, st, acc, n) ==
    IF n = MaxIter THEN [returned |-> FALSE, chunks |-> acc]
    ELSE LET end   == ChunkEnd(txt, st, cs)
             chunk == Strip(PySlice(txt, st, end))
             nxt   == NextStart(end, ov)
             out   == IF Emits(chunk) THEN Append(acc, chunk) ELSE acc
         IN  IF BreakGuard(nxt, txt, ov) \/ ~(nxt < Len(txt))
             THEN [returned |-> TRUE, chunks |-> out]
             ELSE ScanFrom(txt, cs, ov, nxt, out, n + 1)

\* chunk_text(text, chunk_size, chunk_overlap) as a function of its arguments.
chunk_text(txt, cs, ov) ==
    LET stripped == Strip(txt)
    IN  IF stripped = <<>> THEN [returned |-> TRUE, chunks |-> <<>>]
        ELSE IF Len(stripped) <= cs
        THEN [returned |-> TRUE, chunks |-> <<stripped>>]
        ELSE ScanFrom(stripped, cs, ov, 0, <<>>, 0)

\* An enumeration that counts from 1.
EnumIndex_FromOne(j) == j

\* enumerate(text_chunks): the index given to the j-th chunk (1-based j)
EnumIndex(j) == j - 1

\* create_chunks_with_metadata: one dict per chunk of the content.  A content
\* of None is the empty content: both fail the test "if not content".
create_chunks_with_metadata(content, file_id, file_name, web_view_link, cs, ov) ==
    IF content = <<>> THEN [returned |-> TRUE, chunks |-> <<>>]
    ELSE LET res         == chunk_text(content, cs, ov)
             text_chunks == res.chunks
         IN  [ returned |-> res.returned,
               chunks   |->
                 [j \in 1..Len(text_chunks) |->
                    [ text     |-> text_chunks[j],
                      metadata |-> [ file_id       |-> file_id,
                                     file_name     |-> file_name,
                                     chunk_index   |-> EnumIndex(j),
                                     total_chunks  |-> Len(text_chunks),
                                     web_view_link |-> web_view_link ] ]] ]

\* The contents a processed file may carry, and the (chunk_size, overlap)
\* pairs the lists are chunked with.
DocContents ==
    { <<>>, <<" ">>, <<"a">>, <<"a", "a", "a">>,
      <<" ", "a", "a", " ", "a", "a">>,
      <<"a", "a", "a", "a", " ", "a", "a">> }
DocParams == { <<2, 0>>, <<2, 1>>, <<5, 4>> }

\* The d-th file of a list, as document_processor and the caller lay it out.
MakeDoc(d, has_content, content) ==
    [ file_id       |-> d,
      file_name     |-> <<"doc", d>>,
      web_view_link |-> <<"link", d>>,
      has_content   |-> has_content,
      content       |-> content ]

DocLists ==
    UNION { { [d \in 1..n |-> MakeDoc(d, hc[d], ct[d])] :
                hc \in [1..n -> BOOLEAN], ct \in [1..n -> DocContents] } :
            n \in 0..MaxDocs }

FilesIdle ==
    pf = [ pc |-> "idle", processed_files |-> <<>>, chunk_size |-> 0,
           chunk_overlap |-> 0, i |-> 0, all_chunks |-> <<>> ]

\* A call process_files_to_chunks(processed_files, chunk_size, chunk_overlap).
FilesInit ==
    \E docs \in DocLists, prm \in DocParams :
        pf = [ pc |-> "loop", processed_files |-> docs, chunk_size |-> prm[1],
               chunk_overlap |-> prm[2], i |-> 0, all_chunks |-> <<>> ]

\* Lines 136-149: one iteration of the loop over the files.  A chunk_text
\* that does not return leaves the call hanging.
FileStep ==
    /\ pf.pc = "loop"
    /\ pf.i < Len(pf.processed_files)
    /\ LET file_data == pf.processed_files[pf.i + 1]
       IN  IF ~file_data.has_content
           THEN pf' = [pf EXCEPT !.i = @ + 1]
           ELSE LET file_chunks ==
                      create_chunks_with_metadata(
                          file_data.content, file_data.file_id,
                          file_data.file_name, file_data.web_view_link,
                          pf.chunk_size, pf.chunk_overlap)
                IN  IF file_chunks.returned
                    THEN pf' = [pf EXCEPT !.i = @ + 1,
                                          !.all_chunks = @ \o file_chunks.chunks]
                    ELSE pf' = [pf EXCEPT !.pc = "hung"]
    /\ UNCHANGED <<chunkVars, storeVars, askVars, rerankVars, searchVars>>

\* Line 151: return all_chunks.
FileReturn ==
    /\ pf.pc = "loop"
    /\ pf.i = Len(pf.processed_files)
    /\ pf' = [pf EXCEPT !.pc = "done"]
    /\ UNCHANGED <<chunkVars, storeVars, askVars, rerankVars, searchVars>>

FilesNext == FileStep \/ FileReturn

(***************************************************************************)
(* The vector store: collections, store_chunks, search_chunks              *)
(***************************************************************************)
NumRuns    == 2    \* store_chunks invocations followed
MaxBatches == 2    \* most upsert batches of one invocation
MaxFiles   == 2    \* most source documents of one ingestion
batch_size == 100  \* vector_store.py, store_chunks

Runs == 1..NumRuns

\* Folder ids are matched by [\w-]+ (google_drive.py): letters, digits, "_", "-".
FolderIds == { <<"a", "-">>, <<"a", "_">>, <<"b", "b">> }

\* f"folder_{folder_id.replace('-', '_')}"
get_collection_name(folder_id) ==
    <<"folder_">> \o [i \in 1..Len(folder_id) |->
                        IF folder_id[i] = "-" THEN "_" ELSE folder_id[i]]

CollectionNames == { get_collection_name(f) : f \in FolderIds }

\* The chunk lists an ingestion hands to store_chunks: none, one batch, ...
ChunkCounts == {0} \cup { (b - 1) * batch_size + 1 : b \in 1..MaxBatches }

\* The i-th chunk (1-based) of a list of n chunks drawn from nf documents,
\* with the fields process_files_to_chunks gives it: {'text': ...,
\* 'metadata': {...}}.  The documents take turns in the list.
FileOf(i, nf) == ((i - 1) % nf) + 1
MakeChunk(owner, i, n, nf) ==
    [ text     |-> <<"text", owner, i>>,
      metadata |-> [ file_id       |-> FileOf(i, nf),
                     file_name     |-> <<"doc", FileOf(i, nf)>>,
                     chunk_index   |-> (i - 1) \div nf,
                     total_chunks  |-> ((n - FileOf(i, nf)) \div nf) + 1,
                     web_view_link |-> <<"link", FileOf(i, nf)>> ] ]

\* PointStruct(id=uuid4(), vector=..., payload={...}): the id is fresh for every
\* point of every invocation; the payload copies the chunk's six fields.
MakePoint(owner, i, chunk) ==
    [ id      |-> <<owner, i>>,
      payload |-> [ text          |-> chunk.text,
                    file_id       |-> chunk.metadata.file_id,
                    file_name     |-> chunk.metadata.file_name,
                    chunk_index   |-> chunk.metadata.chunk_index,
                    total_chunks  |-> chunk.metadata.total_chunks,
                    web_view_link |-> chunk.metadata.web_view_link ] ]

\* All points store_chunks builds from n chunks (lines 122-143).
PointsOf(owner, n, nf) ==
    { MakePoint(owner, i, MakeChunk(owner, i, n, nf)) : i \in 1..n }

\* points[i:i + batch_size] for the batch starting at 0-based offset i
BatchOf(owner, n, nf, i) ==
    { p \in PointsOf(owner, n, nf) : p.id[2] > i /\ p.id[2] <= i + batch_size }

NoCollection == [exists |-> FALSE, points |-> {}]

IdleRun ==
    [ pc |-> "idle", folder_id |-> <<>>, n |-> 0, nf |-> 1, seen |-> FALSE,
      i |-> 0, result |-> -1, before |-> {} ]

StoreIdle ==
    /\ collections = [c \in CollectionNames |-> NoCollection]
    /\ runs = [r \in Runs |-> IdleRun]
    /\ history = [order |-> <<>>, overlapped |-> {}]

StoreInit == StoreIdle

NameOf(r) == get_collection_name(runs[r].folder_id)
Active(r) == runs[r].pc \notin {"idle", "done", "failed"}

\* Observation: r begins on collection name c; it overlaps every invocation
\* still running on c.
Began(r, c) ==
    LET others == { q \in Runs \ {r} : Active(q) /\ NameOf(q) = c }
    IN  [ order      |-> Append(history.order, r),
          overlapped |-> history.overlapped \cup
                           (IF others = {} THEN {} ELSE others \cup {r}) ]

\* store_chunks lines 98-102 and create_collection_if_not_exists lines 55-58:
\* store_chunks(folder_id, chunks) is called; an empty list
\* returns 0 at once, otherwise the collections are listed (get_collections).
StoreList(r) ==
    /\ runs[r].pc = "idle"
    /\ \E f \in FolderIds, n \in ChunkCounts, nf \in 1..MaxFiles, ok \in BOOLEAN :
         LET c == get_collection_name(f)
             me == [runs[r] EXCEPT !.folder_id = f, !.n = n, !.nf = nf,
                                   !.before = collections[c].points]
         IN  /\ nf <= n \/ nf = 1
             /\ history' = Began(r, c)
             /\ IF n = 0
                THEN /\ ok
                     /\ runs' = [runs EXCEPT ![r] =
                                   [me EXCEPT !.pc = "done", !.result = 0]]
                ELSE IF ~ok
                THEN runs' = [runs EXCEPT ![r] = [me EXCEPT !.pc = "failed"]]
                ELSE runs' = [runs EXCEPT ![r] =
                       [me EXCEPT !.seen = collections[c].exists,
                                  !.pc = IF collections[c].exists
                                         THEN "delete" ELSE "create"]]
    /\ UNCHANGED <<collections, chunkVars, askVars, fileVars, rerankVars, searchVars>>

\* Lines 60-72: create_collection for a name not seen in the listing.  Qdrant
\* refuses to create a collection that exists by now.
StoreCreate(r) ==
    /\ runs[r].pc = "create"
    /\ \E ok \in BOOLEAN :
         IF ok /\ ~collections[NameOf(r)].exists
         THEN /\ collections' = [collections EXCEPT ![NameOf(r)] =
                                   [exists |-> TRUE, points |-> {}]]
              /\ runs' = [runs EXCEPT ![r].pc = "delete"]
         ELSE /\ runs' = [runs EXCEPT ![r].pc = "failed"]
              /\ UNCHANGED collections
    /\ UNCHANGED <<history, chunkVars, askVars, fileVars, rerankVars, searchVars>>

\* Lines 104-113: clear the existing points; a failure is swallowed.
StoreDelete(r) ==
    /\ runs[r].pc = "delete"
    /\ \E ok \in BOOLEAN :
         collections' = IF ok
                        THEN [collections EXCEPT ![NameOf(r)].points = {}]
                        ELSE collections
    /\ runs' = [runs EXCEPT ![r].pc = "embed"]
    /\ UNCHANGED <<history, chunkVars, askVars, fileVars, rerankVars, searchVars>>

\* Lines 115-143: the dense and sparse embeddings, then the points.
StoreEmbed(r) ==
    /\ runs[r].pc = "embed"
    /\ \E ok \in BOOLEAN :
         runs' = [runs EXCEPT ![r].pc = IF ok THEN "upsert" ELSE "failed",
                              ![r].i = 0]
    /\ UNCHANGED <<collections, history, chunkVars, askVars, fileVars, rerankVars, searchVars>>

\* Lines 145-154: one upsert of the loop over the batches; after the last
\* batch store_chunks returns len(points).
StoreUpsert(r) ==
    /\ runs[r].pc = "upsert"
    /\ runs[r].i < runs[r].n
    /\ \E ok \in BOOLEAN :
         IF ok
         THEN /\ collections' = [collections EXCEPT ![NameOf(r)].points =
                     @ \cup BatchOf(r, runs[r].n, runs[r].nf, runs[r].i)]
              /\ runs' = [runs EXCEPT
                     ![r].i = @ + batch_size,
                     ![r].pc = IF runs[r].i + batch_size < runs[r].n
                               THEN "upsert" ELSE "done",
                     ![r].result = IF runs[r].i + batch_size < runs[r].n
                                   THEN @ ELSE runs[r].n]
         ELSE /\ runs' = [runs EXCEPT ![r].pc = "failed"]
              /\ UNCHANGED collections
    /\ UNCHANGED <<history, chunkVars, askVars, fileVars, rerankVars, searchVars>>

StoreNext ==
    \E r \in Runs :
        \/ StoreList(r)
        \/ StoreCreate(r)
        \/ StoreDelete(r)
        \/ StoreEmbed(r)
        \/ StoreUpsert(r)

(***************************************************************************)
(* search_chunks, rerank_chunks and the ask_question pipeline              *)
(***************************************************************************)
SearchTopK == 15   \* ask_question: search_chunks(..., top_k=15)
RerankTopK == 10   \* ask_question: rerank_chunks(..., top_k=10)
PreviewLen == 200  \* build_context_by_document: first_chunk['text'][:200]

MaxAnswerLen == 6  \* longest generated answer followed character by character
MaxCands     == 4  \* longest candidate list given to the context builder alone

NoInfoAnswer == <<"I couldn't find any relevant information in the documents to answer your question.">>

Min(a, b) == IF a < b THEN a ELSE b

Call(svc, outcome) == [svc |-> svc, outcome |-> outcome]

MaxPoints == 3   \* most points of a collection ranked in every possible way

\* The fused score of a point is an exact fraction num/den.
Frac(n, d) == [num |-> n, den |-> d]
Plus(a, b) == Frac(a.num * b.den + b.num * a.den, a.den * b.den)
Geq(a, b)  == a.num * b.den >= b.num * a.den

\* The lists of m distinct elements of S.
Arrangements(S, m) ==
    { f \in [1..m -> S] : \A a, b \in 1..m : f[a] = f[b] => a = b }

\* The j-th point of a collection by owner and position.
PointAt(points, j) ==
    CHOOSE p \in points :
        Cardinality({ q \in points :
                        \/ q.id[1] < p.id[1]
                        \/ q.id[1] = p.id[1] /\ q.id[2] < p.id[2] }) = j - 1

\* Prefetch(..., limit=top_k * 2), for the dense and for the sparse query
PrefetchLimit(top_k) == top_k * 2

\* What the two prefetches of one query may find in a collection.  The dense
\* search ranks the nearest points, as many as the limit allows; the sparse
\* search ranks only points that share a term with the query.  For a small
\* collection every such pair of rankings; for a larger one the two searches
\* agreeing on the ascending order, and the dense search alone finding the
\* points in descending order.
PrefetchAnswers(points, limit) ==
    LET n == Cardinality(points)
        k == Min(n, limit)
    IN  IF n <= MaxPoints
        THEN { [dense |-> d, sparse |-> sp] :
                 d \in Arrangements(points, k),
                 sp \in UNION { Arrangements(points, m) : m \in 0..k } }
        ELSE { [ dense  |-> [j \in 1..k |-> PointAt(points, j)],
                 sparse |-> [j \in 1..k |-> PointAt(points, j)] ],
               [ dense  |-> [j \in 1..k |-> PointAt(points, n + 1 - j)],
                 sparse |-> <<>> ] }

\* A hybrid query that leaves out the sparse prefetch.
Prefetches_DenseOnly(dense, sparse) == <<dense>>

\* prefetch=[Prefetch(query=dense_query, ...), Prefetch(query=SparseVector(...), ...)]:
\* the result lists handed to the fusion.
Prefetches(dense, sparse) == <<dense, sparse>>

\* Reciprocal Rank Fusion, query=FusionQuery(fusion=Fusion.RRF): the constant
\* k, the 1-based rank of a point in a list (0 when it is not in the list),
\* its term 1/(rank + k) for that list, and the sum of its terms.
RrfK == 60
RankIn(list, p) ==
    IF \E j \in 1..Len(list) : list[j] = p
    THEN CHOOSE j \in 1..Len(list) : list[j] = p
    ELSE 0
RankTerm(list, p) ==
    IF RankIn(list, p) = 0 THEN Frac(0, 1) ELSE Frac(1, RankIn(list, p) + RrfK)
RECURSIVE FusedScore(_, _)
FusedScore(lists, p) ==
    IF lists = <<>> THEN Frac(0, 1)
    ELSE Plus(FusedScore(SubSeq(lists, 1, Len(lists) - 1), p),
              RankTerm(lists[Len(lists)], p))

\* A ScoredPoint of the response.
Scored(point, score) ==
    [id |-> point.id, payload |-> point.payload, score |-> score]

\* The points of U best first by the scores sc.
RECURSIVE BestFirst(_, _)
BestFirst(U, sc) ==
    IF U = {} THEN <<>>
    ELSE LET p == CHOOSE x \in U : \A y \in U : Geq(sc[x], sc[y])
         IN  <<Scored(p, sc[p])>> \o BestFirst(U \ {p}, sc)

\* The fused response: the points of the lists by descending fused score, cut
\* to the limit.  Points with equal scores may come in either order; for a
\* larger collection one such order is followed.
Fuse(lists, limit) ==
    LET U  == UNION { { lists[l][j] : j \in 1..Len(lists[l]) } :
                      l \in 1..Len(lists) }
        m  == Min(Cardinality(U), limit)
        sc == [p \in U |-> FusedScore(lists, p)]
    IN  IF Cardinality(U) <= MaxPoints
        THEN { [j \in 1..m |-> Scored(f[j], sc[f[j]])] :
               f \in { g \in Arrangements(U, m) :
                         /\ \A i \in 1..(m - 1) : Geq(sc[g[i]], sc[g[i + 1]])
                         /\ \A p \in U :
                              (\A i \in 1..m : g[i] # p) =>
                                 \A i \in 1..m : Geq(sc[g[i]], sc[p]) } }
        ELSE { SubSeq(BestFirst(U, sc), 1, m) }

\* qdrant_client.query_points(prefetch=[...], query=FusionQuery(fusion=
\* Fusion.RRF), limit=top_k) on the points of a collection: the two prefetch
\* rankings and the fused response.
query_points(points, top_k) ==
    UNION { { [dense |-> pre.dense, sparse |-> pre.sparse, points |-> r] :
              r \in Fuse(Prefetches(pre.dense, pre.sparse), top_k) } :
            pre \in PrefetchAnswers(points, PrefetchLimit(top_k)) }

\* Lines 201-213 of search_chunks: one result dict per returned point.
FormatResult(point) ==
    [ text     |-> point.payload.text,
      score    |-> point.score,
      metadata |-> [ file_id       |-> point.payload.file_id,
                     file_name     |-> point.payload.file_name,
                     chunk_index   |-> point.payload.chunk_index,
                     total_chunks  |-> point.payload.total_chunks,
                     web_view_link |-> point.payload.web_view_link ] ]

\* What search_chunks(folder_id, query, top_k) can do.  embed_ok and query_ok
\* say whether the embedding call and the index call succeed; query_points on
\* a collection that does not exist raises.  The outcome is the calls made
\* and either the list returned or the exception raised, with what the index
\* ranked (dense, sparse) and the points it read (seen).
search_chunks(folder_id, top_k, embed_ok, query_ok) ==
    LET coll == collections[get_collection_name(folder_id)]
        none == [raised |-> TRUE, chunks |-> <<>>, dense |-> <<>>,
                 sparse |-> <<>>, seen |-> {}]
    IN  IF ~embed_ok
        THEN { none @@
               [calls |-> <<Call("embed", "fault")>>] }
        ELSE IF ~query_ok
        THEN { none @@
               [calls |-> <<Call("embed", "ok"), Call("query", "fault")>>] }
        ELSE IF ~coll.exists
        THEN { none @@
               [calls |-> <<Call("embed", "ok"), Call("query", "notfound")>>] }
        ELSE { [ calls  |-> <<Call("embed", "ok"), Call("query", "ok")>>,
                 raised |-> FALSE,
                 chunks |-> [j \in 1..Len(r.points) |-> FormatResult(r.points[j])],
                 dense  |-> r.dense,
                 sparse |-> r.sparse,
                 seen   |-> coll.points ] :
               r \in query_points(coll.points, top_k) }

SearchIdle ==
    sq = [ pc |-> "idle", folder_id |-> <<>>, top_k |-> 0, dense |-> <<>>,
           sparse |-> <<>>, seen |-> {}, at |-> <<>>, results |-> <<>>,
           calls |-> <<>> ]

\* One call search_chunks(folder_id, query, top_k), from entry to return or
\* raise.  The index answers from the points the collection holds at that
\* moment; at records where each store_chunks invocation stood then.
SearchCall ==
    /\ sq.pc = "call"
    /\ \E embed_ok \in BOOLEAN, query_ok \in BOOLEAN :
       \E out \in search_chunks(sq.folder_id, sq.top_k, embed_ok, query_ok) :
         sq' = [sq EXCEPT !.pc      = IF out.raised THEN "raised" ELSE "done",
                          !.dense   = out.dense,
                          !.sparse  = out.sparse,
                          !.seen    = out.seen,
                          !.at      = [r \in Runs |-> runs[r].pc],
                          !.results = out.chunks,
                          !.calls   = out.calls]
    /\ UNCHANGED <<chunkVars, storeVars, askVars, fileVars, rerankVars>>

MaxTopK == 3    \* largest top_k given to rerank_chunks or search_chunks alone

\* The results the reranking service may answer with for n documents and
\* top_n = k, best first: Min(n, k) distinct indices into the documents.  For
\* a few documents every such list; for more, the first k in the given order
\* and the last k in the opposite order.
RerankAnswers(n, k) ==
    IF n <= MaxCands
    THEN { [j \in 1..Min(n, k) |->
              [index |-> f[j], relevance_score |-> <<"rel", j>>]] :
           f \in { g \in [1..Min(n, k) -> 0..(n - 1)] :
                     \A a, b \in 1..Min(n, k) : g[a] = g[b] => a = b } }
    ELSE { [j \in 1..Min(n, k) |->
              [index |-> j - 1, relevance_score |-> <<"rel", j>>]],
           [j \in 1..Min(n, k) |->
              [index |-> n - j, relevance_score |-> <<"rel", j>>]] }

\* chunk = chunks[result.index].copy(); chunk['rerank_score'] = ...
Annotate(chunk, score) ==
    [ text |-> chunk.text, score |-> chunk.score, metadata |-> chunk.metadata,
      rerank_score |-> score ]

\* A reranker that calls the service whatever the number of candidates.
NeedsRerank_Always(chs, top_k) == TRUE

\* if len(chunks) <= top_k: return chunks   (no call is made)
NeedsRerank(chs, top_k) == ~(Len(chs) <= top_k)

\* An annotation written into the entries of the caller's list themselves.
AfterCopy_InPlace(chs, res) ==
    [i \in 1..Len(chs) |->
        IF \E j \in 1..Len(res) : res[j].index + 1 = i
        THEN Annotate(chs[i],
                 res[CHOOSE j \in 1..Len(res) : res[j].index + 1 = i].relevance_score)
        ELSE chs[i]]

\* chunk = chunks[result.index].copy(): the caller's list after the results
\* res were annotated.  The score is written into a copy of the entry, so
\* the list and its entries are as they were.
AfterCopy(chs, res) == chs

\* rerank_chunks(query, chunks, top_k): the calls made, the service's
\* response, the caller's list after the call, and the list returned or the
\* exception raised.
rerank_chunks(chs, top_k, rerank_ok) ==
    IF chs = <<>>
    THEN { [calls |-> <<>>, raised |-> FALSE, response |-> <<>>,
            input |-> chs, chunks |-> <<>>] }
    ELSE IF ~NeedsRerank(chs, top_k)
    THEN { [calls |-> <<>>, raised |-> FALSE, response |-> <<>>,
            input |-> chs, chunks |-> chs] }
    ELSE IF ~rerank_ok
    THEN { [calls |-> <<Call("rerank", "fault")>>, raised |-> TRUE,
            response |-> <<>>, input |-> chs, chunks |-> <<>>] }
    ELSE { [calls |-> <<Call("rerank", "ok")>>, raised |-> FALSE,
            response |-> res, input |-> AfterCopy(chs, res),
            chunks |-> [j \in 1..Len(res) |->
                          Annotate(chs[res[j].index + 1], res[j].relevance_score)]] :
           res \in RerankAnswers(Len(chs), top_k) }

RerankIdle ==
    rr = [ pc |-> "idle", chunks |-> <<>>, before |-> <<>>, top_k |-> 0,
           response |-> <<>>, reranked |-> <<>>, calls |-> <<>> ]

\* One call rerank_chunks(query, chunks, top_k), from entry to return or raise.
RerankCall ==
    /\ rr.pc = "call"
    /\ \E rerank_ok \in BOOLEAN :
       \E out \in rerank_chunks(rr.chunks, rr.top_k, rerank_ok) :
         rr' = [rr EXCEPT !.pc       = IF out.raised THEN "raised" ELSE "done",
                          !.chunks   = out.input,
                          !.response = out.response,
                          !.reranked = out.chunks,
                          !.calls    = out.calls]
    /\ UNCHANGED <<chunkVars, storeVars, askVars, fileVars, searchVars>>

\* group_chunks_by_document: the insertion-ordered dict file_id -> chunks, as
\* the sequence of its items, after the first k chunks.
RECURSIVE GroupUpTo(_, _)
GroupUpTo(chs, k) ==
    IF k = 0 THEN <<>>
    ELSE LET g   == GroupUpTo(chs, k - 1)
             fid == chs[k].metadata.file_id
             at  == {j \in 1..Len(g) : g[j].file_id = fid}
         IN  IF at = {}
             THEN Append(g, [file_id |-> fid, doc_chunks |-> <<chs[k]>>])
             ELSE [g EXCEPT ![CHOOSE j \in at : TRUE].doc_chunks = Append(@, chs[k])]

\* A grouping that opens a group for every chunk.
group_chunks_by_document_PerChunk(chs) ==
    [k \in 1..Len(chs) |->
        [file_id |-> chs[k].metadata.file_id, doc_chunks |-> <<chs[k]>>]]

group_chunks_by_document(chs) == GroupUpTo(chs, Len(chs))

\* A numbering that starts at 0, as enumerate does by default.
DocNum_ZeroBased(k) == k - 1

\* enumerate(grouped.items(), 1): the number of the k-th item
DocNum(k) == k

\* build_context_by_document: the rendered context, as its sequence of
\* labelled blocks "[n] file_name:\n<texts>", and the reference map.
build_context_by_document(chs) ==
    LET grouped == group_chunks_by_document(chs)
        first(k) == grouped[k].doc_chunks[1]
    IN  [ context |->
            [k \in 1..Len(grouped) |->
               [ label     |-> DocNum(k),
                 file_name |-> first(k).metadata.file_name,
                 texts     |-> [j \in 1..Len(grouped[k].doc_chunks) |->
                                   grouped[k].doc_chunks[j].text] ]],
          doc_map |->
            [n \in {DocNum(k) : k \in 1..Len(grouped)} |->
               LET k == CHOOSE k \in 1..Len(grouped) : DocNum(k) = n
               IN  [ file_id       |-> grouped[k].file_id,
                     file_name     |-> first(k).metadata.file_name,
                     web_view_link |-> first(k).metadata.web_view_link,
                     text          |-> PySlice(first(k).text, 0, PreviewLen) ]] ]

Digits == {"0", "1", "2", "3", "4", "5", "6", "7", "8", "9"}
DigitValue(d) ==
    CASE d = "0" -> 0 [] d = "1" -> 1 [] d = "2" -> 2 [] d = "3" -> 3
      [] d = "4" -> 4 [] d = "5" -> 5 [] d = "6" -> 6 [] d = "7" -> 7
      [] d = "8" -> 8 [] d = "9" -> 9

\* int(m) for a string of digits
RECURSIVE ParseInt(_)
ParseInt(ds) ==
    IF ds = <<>> THEN 0
    ELSE 10 * ParseInt(SubSeq(ds, 1, Len(ds) - 1)) + DigitValue(ds[Len(ds)])

\* The end (1-based, inclusive) of the longest run of digits starting at i.
RECURSIVE DigitRunEnd(_, _)
DigitRunEnd(txt, i) ==
    IF i <= Len(txt) /\ txt[i] \in Digits THEN DigitRunEnd(txt, i + 1) ELSE i - 1

\* re.findall(r'\[(\d+)\]', text) scanning from 1-based position i: the
\* captured digit strings of the successive non-overlapping matches.
RECURSIVE FindAllFrom(_, _)
FindAllFrom(txt, i) ==
    IF i > Len(txt) THEN <<>>
    ELSE IF txt[i] # "[" THEN FindAllFrom(txt, i + 1)
    ELSE LET e == DigitRunEnd(txt, i + 1)
         IN  IF e >= i + 1 /\ e + 1 <= Len(txt) /\ txt[e + 1] = "]"
             THEN <<SubSeq(txt, i + 1, e)>> \o FindAllFrom(txt, e + 2)
             ELSE FindAllFrom(txt, i + 1)

\* extract_citation_numbers: set(int(m) for m in matches)
extract_citation_numbers(txt) ==
    LET matches == FindAllFrom(txt, 1)
    IN  { ParseInt(matches[k]) : k \in 1..Len(matches) }

\* The numbers in descending order, one order an unsorted set may iterate in.
RECURSIVE Sorted_Descending(_)
Sorted_Descending(S) ==
    IF S = {} THEN <<>>
    ELSE LET m == CHOOSE x \in S : \A y \in S : x >= y
         IN  <<m>> \o Sorted_Descending(S \ {m})

\* sorted(S) for a finite set of integers
RECURSIVE Sorted(_)
Sorted(S) ==
    IF S = {} THEN <<>>
    ELSE LET m == CHOOSE x \in S : \A y \in S : x <= y
         IN  <<m>> \o Sorted(S \ {m})

\* Citation(file_name=..., file_id=..., web_view_link=..., chunk_index=0, text=...)
MakeCitation(doc) ==
    [ file_name |-> doc.file_name, file_id |-> doc.file_id,
      web_view_link |-> doc.web_view_link, chunk_index |-> 0,
      text |-> doc.text ]

\* for doc_num in sorted(cited_numbers): if doc_num in doc_map: ...
Resolves(doc_num, dm) == doc_num \in DOMAIN dm

\* Lines 157-170 of ask_question: the citations of an answer.
build_citations(ans, dm) ==
    LET nums == Sorted(extract_citation_numbers(ans))
        kept == SelectSeq(nums, LAMBDA n : Resolves(n, dm))
    IN  [k \in 1..Len(kept) |-> MakeCitation(dm[kept[k]])]

\* ChatResponse(answer=..., citations=...)
ChatResponse(ans, cits) == [kind |-> "ok", answer |-> ans, citations |-> cits]

\* A handler that answers with what it has instead of raising.
HTTPError_PartialAnswer == [kind |-> "ok", answer |-> <<>>, citations |-> <<>>]

\* raise HTTPException(status_code=500, ...)
HTTPError == [kind |-> "error", status_code |-> 500]

\* A pipeline without the early exit.
ShortCircuits_Never(found) == FALSE

\* if not initial_chunks: return the canned response
ShortCircuits(found) == found = <<>>

Questions == { <<>>, <<"q">> }

\* What the generation service may answer.
Answers ==
    { <<>>,
      <<"[", "1", "]">>,
      <<"x", "[", "2", "]", "[", "1", "]", "[", "1", "]">>,
      <<"[", "9", "]", "[", "1", "]">> }

\* What a collection may hold when a question arrives: nothing was ever
\* ingested, or an earlier ingestion (owner 0) stored n points of nf documents.
StoredCounts == {0, 1, 2, RerankTopK + 1, SearchTopK + 1}
StoredStates ==
    {NoCollection} \cup
    { [exists |-> TRUE, points |-> PointsOf(0, n, nf)] :
        n \in StoredCounts, nf \in 1..MaxFiles }

\* A handler that stays where it is after a failed call and tries again.
AfterFault_Retry(pc) == pc

\* except Exception as e: raise HTTPException(...): a failed call ends the run.
AfterFault(pc) == "error"

AskInit ==
    /\ apc = "start"
    /\ question \in [folder_id : FolderIds, question : Questions]
    /\ initial_chunks = <<>>
    /\ reranked_chunks = <<>>
    /\ context = <<>>
    /\ doc_map = <<>>
    /\ answer = <<>>
    /\ response = <<>>
    /\ calls = <<>>

\* Lines 117-129: search_chunks, then the early exit on no candidates.
AskSearch ==
    /\ apc = "start"
    /\ \E embed_ok \in BOOLEAN, query_ok \in BOOLEAN :
       \E out \in search_chunks(question.folder_id, SearchTopK, embed_ok, query_ok) :
         /\ calls' = calls \o out.calls
         /\ IF out.raised
            THEN /\ apc' = AfterFault(apc)
                 /\ response' = Append(response, HTTPError)
                 /\ UNCHANGED initial_chunks
            ELSE /\ initial_chunks' = out.chunks
                 /\ IF ShortCircuits(out.chunks)
                    THEN /\ apc' = "done"
                         /\ response' = Append(response,
                                               ChatResponse(NoInfoAnswer, <<>>))
                    ELSE /\ apc' = "searched"
                         /\ UNCHANGED response
    /\ UNCHANGED <<question, reranked_chunks, context, doc_map, answer>>
    /\ UNCHANGED <<chunkVars, storeVars, fileVars, rerankVars, searchVars>>

\* Lines 131-136: rerank_chunks.
AskRerank ==
    /\ apc = "searched"
    /\ \E rerank_ok \in BOOLEAN :
       \E out \in rerank_chunks(initial_chunks, RerankTopK, rerank_ok) :
         /\ calls' = calls \o out.calls
         /\ IF out.raised
            THEN /\ apc' = AfterFault(apc)
                 /\ response' = Append(response, HTTPError)
                 /\ UNCHANGED reranked_chunks
            ELSE /\ apc' = "reranked"
                 /\ reranked_chunks' = out.chunks
                 /\ UNCHANGED response
         /\ initial_chunks' = out.input
    /\ UNCHANGED <<question, context, doc_map, answer>>
    /\ UNCHANGED <<chunkVars, storeVars, fileVars, rerankVars, searchVars>>

\* Lines 138-139: build_context_by_document.
AskBuild ==
    /\ apc = "reranked"
    /\ LET built == build_context_by_document(reranked_chunks)
       IN  /\ context' = built.context
           /\ doc_map' = built.doc_map
    /\ apc' = "built"
    /\ UNCHANGED <<question, initial_chunks, reranked_chunks, answer, response, calls>>
    /\ UNCHANGED <<chunkVars, storeVars, fileVars, rerankVars, searchVars>>

\* Lines 141-154: the generation call.
AskGenerate ==
    /\ apc = "built"
    /\ \E ok \in BOOLEAN :
         IF ok
         THEN /\ \E a \in Answers : answer' = a
              /\ calls' = Append(calls, Call("generate", "ok"))
              /\ apc' = "generated"
              /\ UNCHANGED response
         ELSE /\ calls' = Append(calls, Call("generate", "fault"))
              /\ apc' = AfterFault(apc)
              /\ response' = Append(response, HTTPError)
              /\ UNCHANGED answer
    /\ UNCHANGED <<question, initial_chunks, reranked_chunks, context, doc_map>>
    /\ UNCHANGED <<chunkVars, storeVars, fileVars, rerankVars, searchVars>>

\* Lines 156-175: the citations of the answer, and the response.
AskCite ==
    /\ apc = "generated"
    /\ response' = Append(response,
                          ChatResponse(answer, build_citations(answer, doc_map)))
    /\ apc' = "done"
    /\ UNCHANGED <<question, initial_chunks, reranked_chunks, context, doc_map,
                   answer, calls>>
    /\ UNCHANGED <<chunkVars, storeVars, fileVars, rerankVars, searchVars>>

AskNext == AskSearch \/ AskRerank \/ AskBuild \/ AskGenerate \/ AskCite

AskIdle ==
    /\ apc = "idle"
    /\ question = <<>>
    /\ initial_chunks = <<>>
    /\ reranked_chunks = <<>>
    /\ context = <<>>
    /\ doc_map = <<>>
    /\ answer = <<>>
    /\ response = <<>>
    /\ calls = <<>>

(***************************************************************************)
(* Specifications                                                          *)
(***************************************************************************)
\* chunk_text on every bounded text and every valid (chunk_size, overlap).
InitChunk == ChunkInit /\ FilesIdle /\ StoreIdle /\ RerankIdle /\ SearchIdle /\ AskIdle
SpecChunk == InitChunk /\ [][ChunkNext]_vars

\* chunk_text on every bounded text and every (chunk_size, overlap), the
\* malformed pairs included.
InitChunkAny == ChunkInitAny /\ FilesIdle /\ StoreIdle /\ RerankIdle /\ SearchIdle /\ AskIdle
SpecChunkAny == InitChunkAny /\ [][ChunkNext]_vars

\* process_files_to_chunks on every bounded list of processed files.
InitFiles == ChunkIdle /\ FilesInit /\ StoreIdle /\ RerankIdle /\ SearchIdle /\ AskIdle
SpecFiles == InitFiles /\ [][FilesNext]_vars

\* Concurrent and successive ingestions.
InitStore == ChunkIdle /\ FilesIdle /\ StoreInit /\ RerankIdle /\ SearchIdle /\ AskIdle
SpecStore == InitStore /\ [][StoreNext]_vars

\* One question asked of a store in any state an ingestion may have left.
InitAsk ==
    /\ ChunkIdle
    /\ FilesIdle
    /\ RerankIdle
    /\ SearchIdle
    /\ collections \in [CollectionNames -> StoredStates]
    /\ runs = [r \in Runs |-> IdleRun]
    /\ history = [order |-> <<>>, overlapped |-> {}]
    /\ AskInit
SpecAsk == InitAsk /\ [][AskNext]_vars

\* The state of ask_question after a search that found chs (no more than
\* RerankTopK, so that no reranking call was made) and the context was built.
AfterBuild(chs) ==
    /\ question = [folder_id |-> <<"b", "b">>, question |-> <<"q">>]
    /\ initial_chunks = chs
    /\ reranked_chunks = chs
    /\ context = build_context_by_document(chs).context
    /\ doc_map = build_context_by_document(chs).doc_map
    /\ response = <<>>

\* The citation step on every bounded answer text, after a search that
\* found the points by the dense prefetch alone, in any order.
CiteAlphabet == {"[", "]", "1", "2"}
AnswerTexts == UNION { [1..k -> CiteAlphabet] : k \in 0..MaxAnswerLen }
InitCite ==
    /\ ChunkIdle
    /\ FilesIdle
    /\ RerankIdle
    /\ SearchIdle
    /\ runs = [r \in Runs |-> IdleRun]
    /\ history = [order |-> <<>>, overlapped |-> {}]
    /\ \E nf \in 1..MaxFiles :
         /\ collections = [c \in CollectionNames |->
                             [exists |-> TRUE, points |-> PointsOf(0, nf, nf)]]
         /\ \E r \in query_points(PointsOf(0, nf, nf), SearchTopK) :
              /\ r.sparse = <<>>
              /\ AfterBuild([j \in 1..Len(r.points) |-> FormatResult(r.points[j])])
    /\ apc = "generated"
    /\ answer \in AnswerTexts
    /\ calls = <<Call("embed", "ok"), Call("query", "ok"), Call("generate", "ok")>>
SpecCite == InitCite /\ [][AskCite]_vars

\* The context builder on every bounded candidate list.
CandidateLists ==
    UNION { { [k \in 1..len |->
                 FormatResult(Scored(MakePoint(0, k,
                     [ text |-> <<"text", 0, k>>,
                       metadata |-> [ file_id       |-> fs[k],
                                      file_name     |-> <<"doc", fs[k]>>,
                                      chunk_index   |-> k - 1,
                                      total_chunks  |-> len,
                                      web_view_link |-> <<"link", fs[k]>> ] ]),
                     Frac(1, k + RrfK)))] :
              fs \in [1..len -> 1..(MaxFiles + 1)] } : len \in 1..MaxCands }
\* rerank_chunks on every bounded candidate list, the empty one included,
\* with every top_k from 1 to MaxTopK.
RerankInit ==
    \E chs \in CandidateLists \cup {<<>>}, k \in 1..MaxTopK :
        rr = [ pc |-> "call", chunks |-> chs, before |-> chs, top_k |-> k,
               response |-> <<>>, reranked |-> <<>>, calls |-> <<>> ]
InitRerank == ChunkIdle /\ FilesIdle /\ StoreIdle /\ RerankInit /\ SearchIdle /\ AskIdle
SpecRerank == InitRerank /\ [][RerankCall]_vars

\* search_chunks on every small collection, and on a collection that does not
\* exist, with every top_k from 1 to MaxTopK.
SearchInit ==
    \E f \in FolderIds, k \in 1..MaxTopK :
    \E stored \in {NoCollection} \cup
                  { [exists |-> TRUE, points |-> PointsOf(0, n, 1)] :
                      n \in 0..MaxPoints } :
        /\ collections = [c \in CollectionNames |->
                            IF c = get_collection_name(f)
                            THEN stored ELSE NoCollection]
        /\ runs = [r \in Runs |-> IdleRun]
        /\ history = [order |-> <<>>, overlapped |-> {}]
        /\ sq = [ pc |-> "call", folder_id |-> f, top_k |-> k, dense |-> <<>>,
                  sparse |-> <<>>, seen |-> {}, at |-> <<>>, results |-> <<>>,
                  calls |-> <<>> ]
InitSearch == ChunkIdle /\ FilesIdle /\ RerankIdle /\ SearchInit /\ AskIdle
SpecSearch == InitSearch /\ [][SearchCall]_vars

\* One ingestion and one query of any folders, the query at any moment
\* before, during or after the ingestion, on collections in any state an
\* earlier ingestion (owner 0) may have left.
Ingesting == 1
PriorStates ==
    { NoCollection, [exists |-> TRUE, points |-> {}] } \cup
    { [exists |-> TRUE, points |-> PointsOf(0, n, 1)] : n \in ChunkCounts \ {0} }
QueryInit ==
    /\ collections \in [CollectionNames -> PriorStates]
    /\ runs = [r \in Runs |-> IdleRun]
    /\ history = [order |-> <<>>, overlapped |-> {}]
    /\ \E f \in FolderIds :
         sq = [ pc |-> "call", folder_id |-> f, top_k |-> 1, dense |-> <<>>,
                sparse |-> <<>>, seen |-> {}, at |-> <<>>, results |-> <<>>,
                calls |-> <<>> ]
IngestOne ==
    \/ StoreList(Ingesting)
    \/ StoreCreate(Ingesting)
    \/ StoreDelete(Ingesting)
    \/ StoreEmbed(Ingesting)
    \/ StoreUpsert(Ingesting)
InitStoreQuery == ChunkIdle /\ FilesIdle /\ RerankIdle /\ QueryInit /\ AskIdle
SpecStoreQuery == InitStoreQuery /\ [][IngestOne \/ SearchCall]_vars

InitCtx ==
    /\ ChunkIdle
    /\ FilesIdle
    /\ RerankIdle
    /\ SearchIdle
    /\ StoreIdle
    /\ apc = "reranked"
    /\ question = [folder_id |-> <<"b", "b">>, question |-> <<"q">>]
    /\ reranked_chunks \in CandidateLists
    /\ initial_chunks = reranked_chunks
    /\ context = <<>>
    /\ doc_map = <<>>
    /\ answer = <<>>
    /\ response = <<>>
    /\ calls = <<Call("embed", "ok"), Call("query", "ok")>>
SpecCtx == InitCtx /\ [][AskBuild]_vars

(***************************************************************************)
(* Claims about chunk_text                                                 *)
(***************************************************************************)
\* C1: for every text and every valid (chunk_size, overlap), every iteration
\* of the scan loop moves the start offset strictly forward, and the loop
\* ends after at most len(text) iterations.
C1_ForwardProgress ==
    /\ \A i \in 1..Len(spans) :
          (IF i < Len(spans) THEN spans[i + 1][1] ELSE start) > spans[i][1]
    /\ Len(spans) <= Len(text)

\* C11: a call with malformed parameters (chunk_size <= overlap) never enters
\* the scan loop and emits no chunk.
C11_MalformedRejected ==
    chunk_size <= chunk_overlap => (cpc # "loop" /\ chunks = <<>> /\ spans = <<>>)

IsBlank(s) == \A i \in 1..Len(s) : s[i] \in Whitespace

\* t is s without its leading and trailing whitespace.
IsTrimOf(t, s) ==
    \E i, j \in 0..Len(s) :
        /\ i + Len(t) + j = Len(s)
        /\ \A k \in 1..i : s[k] \in Whitespace
        /\ \A k \in (Len(s) - j + 1)..Len(s) : s[k] \in Whitespace
        /\ \A k \in 1..Len(t) : t[k] = s[i + k]
        /\ t # <<>> => (t[1] \notin Whitespace /\ t[Len(t)] \notin Whitespace)

\* C13 as stated: every text no longer than chunk_size, the empty text and the
\* all-whitespace text included, comes back as exactly one chunk equal to the
\* trimmed text.
C13_ShortIsOneChunk ==
    (cpc = "done" /\ Len(given) <= chunk_size)
    => (Len(chunks) = 1 /\ IsTrimOf(chunks[1], given))

\* C13: a text no longer than chunk_size that holds a character other than
\* whitespace comes back as exactly one chunk, the text without its
\* surrounding whitespace, and the scan loop is not entered; an empty or
\* all-whitespace text comes back as no chunk at all.
C13_ShortNonBlankIsOneChunk ==
    (cpc = "done" /\ Len(given) <= chunk_size)
    => /\ spans = <<>>
       /\ IF IsBlank(given)
          THEN chunks = <<>>
          ELSE Len(chunks) = 1 /\ IsTrimOf(chunks[1], given)

\* A short text with whitespace on both sides came back as one shorter chunk.
C13_Witness ==
    /\ cpc = "done"
    /\ Len(given) <= chunk_size
    /\ Len(given) >= 3
    /\ given[1] = " " /\ given[Len(given)] = " "
    /\ Len(chunks) = 1
    /\ Len(chunks[1]) = Len(given) - 2

\* The window of the k-th loop iteration, text[start:end], as the offsets
\* <<lo, hi>> it spans, and the offsets in it that hold a character other
\* than whitespace.
Window(k) ==
    <<SliceIndex(spans[k][1], Len(text)), SliceIndex(spans[k][2], Len(text))>>
Kept(k) ==
    { q \in 0..(Len(text) - 1) :
        Window(k)[1] <= q /\ q < Window(k)[2] /\ text[q + 1] \notin Whitespace }
\* The offsets <<lo, hi>> of the chunk emitted by the k-th iteration.
ChunkLo(k) == LET K == Kept(k) IN CHOOSE q \in K : \A r \in K : q <= r
ChunkHi(k) == LET K == Kept(k) IN (CHOOSE q \in K : \A r \in K : q >= r) + 1
\* The iterations that emitted a chunk, in order.
Emitting == SelectSeq([k \in 1..Len(spans) |-> k], LAMBDA k : Kept(k) # {})
\* The text was longer than chunk_size: the scan is under way, or has returned.
Scanning == cpc = "loop" \/ spans # <<>>
Returned == cpc = "done" /\ spans # <<>>

\* C14 as stated: the emitted chunks themselves cover the text: the first
\* starts at the first character, each next one starts no later than the
\* previous one ended, and the last ends at the last character.
C14_ChunksCoverText ==
    Returned =>
        /\ Emitting # <<>>
        /\ ChunkLo(Emitting[1]) = 0
        /\ \A j \in 1..(Len(Emitting) - 1) :
              ChunkLo(Emitting[j + 1]) <= ChunkHi(Emitting[j])
        /\ ChunkHi(Emitting[Len(Emitting)]) = Len(text)

\* C14: the windows the chunks are cut from cover the trimmed text: the first
\* starts at its first character and each next one starts no later than the
\* previous one ended, at every point of the scan; when the call returns the
\* last window reaches the end of the text.  The chunks are these windows, in
\* order, without their surrounding whitespace (a window of whitespace alone
\* gives no chunk), so every character other than whitespace lies in a chunk.
C14_WindowsCoverText ==
    /\ spans # <<>> => spans[1][1] = 0
    /\ \A k \in 1..(Len(spans) - 1) : spans[k + 1][1] <= spans[k][2]
    /\ Returned => spans[Len(spans)][2] >= Len(text)
    /\ Scanning =>
          LET E == Emitting
          IN  /\ Len(chunks) = Len(E)
              /\ \A j \in 1..Len(E) :
                    chunks[j] = SubSeq(text, ChunkLo(E[j]) + 1, ChunkHi(E[j]))
    /\ Returned =>
          \A q \in 0..(Len(text) - 1) :
              text[q + 1] \notin Whitespace => \E k \in 1..Len(spans) : q \in Kept(k)

\* A returned scan of several chunks in which a space between two words lies
\* in no chunk.
C14_Witness ==
    /\ Returned
    /\ Len(chunks) >= 2
    /\ \E q \in 1..(Len(text) - 2) :
          /\ text[q + 1] = " "
          /\ \A k \in 1..Len(spans) :
                Kept(k) # {} => ~(ChunkLo(k) <= q /\ q < ChunkHi(k))

\* C15 as stated: every emitted chunk after the first starts exactly overlap
\* characters before the offset at which the chunk emitted before it ended.
C15_ChunkStartsOverlapBack ==
    Scanning =>
        \A j \in 1..(Len(Emitting) - 1) :
            ChunkLo(Emitting[j + 1]) = ChunkHi(Emitting[j]) - chunk_overlap

\* C15: every window after the first starts exactly overlap characters before
\* the offset at which the previous window ended, and so does the scan offset
\* after the last window; in a scan that has returned no window starts before
\* the text.  The chunk cut from a window starts at the window's first
\* character that is not whitespace: at the window's start when that
\* character is not whitespace, later otherwise.
C15_WindowStartsOverlapBack ==
    /\ \A k \in 1..(Len(spans) - 1) :
          spans[k + 1][1] = spans[k][2] - chunk_overlap
    /\ spans # <<>> => start = spans[Len(spans)][2] - chunk_overlap
    /\ Returned => \A k \in 1..Len(spans) : spans[k][1] >= 0
    /\ \A k \in 1..Len(spans) :
          Kept(k) # {} =>
            /\ ChunkLo(k) >= spans[k][1]
            /\ (spans[k][1] >= 0 /\ text[spans[k][1] + 1] \notin Whitespace)
                  => ChunkLo(k) = spans[k][1]

\* A returned scan whose second chunk shares two or more characters with the
\* first.
C15_Witness ==
    /\ Returned
    /\ chunk_overlap >= 2
    /\ Len(spans) >= 2 /\ Len(chunks) >= 2
    /\ Kept(1) # {} /\ Kept(2) # {}
    /\ ChunkLo(2) = ChunkHi(1) - chunk_overlap

\* 20% of n, rounded down.
Fifth(n) == CHOOSE w \in 0..n : 5 * w <= n /\ n < 5 * (w + 1)
\* The offsets of the last 20% of the window that starts at st; the offsets
\* there of a sentence-ending mark (., ! or ? with a space or a newline after
\* it, both inside the region); the offsets there of a space.
LastFifth(st) ==
    LET w == Fifth(chunk_size)
    IN  { q \in 0..(Len(text) - 1) :
            st + chunk_size - w <= q /\ q < st + chunk_size }
MarksIn(st) ==
    LET region == LastFifth(st)
    IN  { q \in region : /\ q + 1 \in region
                         /\ text[q + 1] \in {".", "!", "?"}
                         /\ text[q + 2] \in {" ", "\n"} }
SpacesIn(st) == { q \in LastFifth(st) : text[q + 1] = " " }
Last(S) == CHOOSE q \in S : \A r \in S : q >= r

\* The offsets of the spaces of the window that starts at st, after its
\* first character and before its raw end.
SpacesBefore(st) ==
    { q \in 0..(Len(text) - 1) :
        st < q /\ q < st + chunk_size /\ text[q + 1] = " " }

\* C16 as stated: with no sentence-ending mark in the last 20% of the window
\* the chunk ends at the nearest space before the raw end, wherever in the
\* window it lies, and the raw end is used only when the window has no space.
C16_NearestPrecedingSpace ==
    \A k \in 1..Len(spans) :
        LET st  == spans[k][1]
            en  == spans[k][2]
            raw == st + chunk_size
        IN  raw < Len(text) =>
              IF MarksIn(st) # {} THEN en = Last(MarksIn(st)) + 1
              ELSE IF SpacesBefore(st) # {} THEN en = Last(SpacesBefore(st))
              ELSE en = raw

\* C16: a window whose raw end start + chunk_size lies before the end of the
\* text ends just after the last sentence-ending mark in its last 20%; with
\* no such mark, at the last space in its last 20%; with neither, at the raw
\* end.  A window whose raw end reaches the end of the text ends there.
C16_BoundaryPreference ==
    \A k \in 1..Len(spans) :
        LET st  == spans[k][1]
            en  == spans[k][2]
            raw == st + chunk_size
            marks  == MarksIn(st)
            spaces == SpacesIn(st)
        IN  IF raw >= Len(text)   THEN en = raw
            ELSE IF marks # {}     THEN en = Last(marks) + 1
            ELSE IF spaces # {}    THEN en = Last(spaces)
            ELSE en = raw

\* A scan whose first window ended after a sentence-ending mark although a
\* space lay later in its last 20%, and whose second window, with no mark in
\* its last 20%, ended at a space.
C16_Witness ==
    /\ Len(spans) >= 2
    /\ MarksIn(spans[1][1]) # {} /\ SpacesIn(spans[1][1]) # {}
    /\ spans[1][2] = Last(MarksIn(spans[1][1])) + 1
    /\ Last(SpacesIn(spans[1][1])) > Last(MarksIn(spans[1][1]))
    /\ spans[2][1] + chunk_size < Len(text)
    /\ MarksIn(spans[2][1]) = {} /\ SpacesIn(spans[2][1]) # {}
    /\ spans[2][2] = Last(SpacesIn(spans[2][1]))

\* t occurs in s as a run of consecutive characters.
IsSubstring(t, s) ==
    \E i \in 0..(Len(s) - Len(t)) : \A k \in 1..Len(t) : t[k] = s[i + k]

\* C17: every chunk emitted, at every point of the scan and on return, is
\* non-empty, occurs in the text that was passed as a run of consecutive
\* characters, and is at most chunk_size characters long.
C17_ChunksAreBoundedSubstrings ==
    \A j \in 1..Len(chunks) :
        /\ chunks[j] # <<>>
        /\ Len(chunks[j]) <= chunk_size
        /\ IsSubstring(chunks[j], given)

\* A returned scan that skipped a window of whitespace alone and emitted a
\* chunk of the full chunk_size.
C17_Witness ==
    /\ Returned
    /\ \E k \in 1..Len(spans) : Kept(k) = {}
    /\ \E j \in 1..Len(chunks) : Len(chunks[j]) = chunk_size
    /\ Len(chunks) >= 2

\* The chunks of the output that carry file id d, in output order.
ChunksOf(d) == SelectSeq(pf.all_chunks, LAMBDA c : c.metadata.file_id = d)
\* The document is flagged as having content and its content is not blank.
Extractable(doc) == doc.has_content /\ ~IsBlank(doc.content)

\* C18: the output holds no chunk of a document without extractable content
\* (nor of one the loop has not reached); of every other document it holds
\* N >= 1 chunks, next to each other and in the order of the documents, whose
\* index values are 0..N-1 in output order, whose total count is N and which
\* carry the document's id, name and link.
C18_DenseIndices ==
    /\ \A d \in 1..Len(pf.processed_files) :
          LET doc == pf.processed_files[d]
              own == ChunksOf(d)
          IN  IF d > pf.i \/ ~Extractable(doc)
              THEN own = <<>>
              ELSE /\ Len(own) >= 1
                   /\ \A j \in 1..Len(own) :
                         /\ own[j].metadata.chunk_index = j - 1
                         /\ own[j].metadata.total_chunks = Len(own)
                         /\ own[j].metadata.file_name = doc.file_name
                         /\ own[j].metadata.web_view_link = doc.web_view_link
    /\ \A a, b \in 1..Len(pf.all_chunks) :
          a < b => pf.all_chunks[a].metadata.file_id
                     <= pf.all_chunks[b].metadata.file_id
    /\ \A a \in 1..Len(pf.all_chunks) :
          pf.all_chunks[a].metadata.file_id \in 1..Len(pf.processed_files)

\* A returned call on three documents: one flagged as without content though
\* it carries text, one of three or more chunks, one more with chunks.
C18_Witness ==
    /\ pf.pc = "done"
    /\ \E d, e, g \in 1..Len(pf.processed_files) :
          /\ d # e /\ e # g /\ d # g
          /\ ~pf.processed_files[d].has_content
          /\ ~IsBlank(pf.processed_files[d].content)
          /\ Len(ChunksOf(e)) >= 3
          /\ Len(ChunksOf(g)) >= 1

(***************************************************************************)
(* Claims about store_chunks                                               *)
(***************************************************************************)
Done(r)        == runs[r].pc = "done"
Failed(r)      == runs[r].pc = "failed"
PointsOfRun(r) == PointsOf(r, runs[r].n, runs[r].nf)
PointsIn(c)    == collections[c].points
Started        == { history.order[k] : k \in 1..Len(history.order) }
LastStarted    == history.order[Len(history.order)]
\* r has cleared the collection and has inserts pending.
InSection(r)   == runs[r].pc \in {"embed", "upsert"}
SameKey        == \A r, q \in Started : runs[r].folder_id = runs[q].folder_id

\* C2: after completed, non-overlapping ingestions of one collection key the
\* collection holds exactly the points of the most recent one.
C2_ReplacesAll ==
    ( /\ Started # {}
      /\ history.overlapped = {}
      /\ SameKey
      /\ \A r \in Started : Done(r) )
    => PointsIn(NameOf(LastStarted)) = PointsOfRun(LastStarted)

\* C3: two ingestions of one collection key never interleave their clear and
\* insert steps, and after both complete the collection holds the points of
\* exactly one of them.
C3_Serialized ==
    \A r, q \in Runs :
        (r # q /\ runs[r].folder_id = runs[q].folder_id) =>
            /\ ~(InSection(r) /\ InSection(q))
            /\ (Done(r) /\ Done(q) /\ runs[r].n > 0 /\ runs[q].n > 0) =>
                   PointsIn(NameOf(r)) \in {PointsOfRun(r), PointsOfRun(q)}

\* C9: an ingestion that aborts leaves the collection holding one complete
\* point set, the one it held before or the new one.
C9_AtomicReplace ==
    \A r \in Runs :
        ( /\ Failed(r)
          /\ history.overlapped = {}
          /\ SameKey
          /\ LastStarted = r )
        => PointsIn(NameOf(r)) \in {runs[r].before, PointsOfRun(r)}

\* C10: two ingestions of distinct folder ids leave each folder's collection
\* holding exactly that folder's own points.
C10_Independent ==
    \A r, q \in Runs :
        ( /\ Started = {r, q}
          /\ runs[r].folder_id # runs[q].folder_id
          /\ Done(r) /\ Done(q) )
        => /\ PointsIn(NameOf(r)) = PointsOfRun(r)
           /\ PointsIn(NameOf(q)) = PointsOfRun(q)

(***************************************************************************)
(* Claims about search_chunks                                              *)
(***************************************************************************)
\* The 1-based rank of a returned candidate in a prefetch list, 0 when the
\* list does not hold its point.
RankOf(list, cand) ==
    LET at == { j \in 1..Len(list) : list[j].payload.text = cand.text }
    IN  IF at = {} THEN 0 ELSE CHOOSE j \in at : TRUE

\* num/den = 1/(r1 + k) + 1/(r2 + k), a rank of 0 contributing no term.
IsRrfScore(score, r1, r2) ==
    CASE r1 > 0 /\ r2 > 0 ->
           score.num * ((r1 + RrfK) * (r2 + RrfK)) = score.den * (r1 + r2 + 2 * RrfK)
      [] r1 > 0 /\ r2 = 0 -> score.num * (r1 + RrfK) = score.den
      [] r1 = 0 /\ r2 > 0 -> score.num * (r2 + RrfK) = score.den
      [] OTHER -> FALSE

\* C21: the candidates search_chunks returns are the points of the dense and
\* the sparse result list, each scored 1/(r1 + k) + 1/(r2 + k) from its 1-based
\* ranks (a single term for a point of one list only), in descending order of
\* that score; a point at ranks 1 and 3 comes after a point at ranks 2 and 1.
C21_FusedOrder ==
    sq.pc = "done" =>
        LET res   == sq.results
            r1(i) == RankOf(sq.dense, res[i])
            r2(i) == RankOf(sq.sparse, res[i])
        IN  /\ \A i \in 1..Len(res) : IsRrfScore(res[i].score, r1(i), r2(i))
            /\ \A i, j \in 1..Len(res) :
                  i < j => /\ Geq(res[i].score, res[j].score)
                           /\ res[i].text # res[j].text
            /\ \A a, b \in 1..Len(res) :
                  (r1(a) = 1 /\ r2(a) = 3 /\ r1(b) = 2 /\ r2(b) = 1) => b < a

\* A query returned the point at ranks 2 and 1 first and the point at ranks
\* 1 and 3 second.
C21_Witness ==
    /\ sq.pc = "done"
    /\ Len(sq.results) >= 2
    /\ RankOf(sq.dense, sq.results[1]) = 2
    /\ RankOf(sq.sparse, sq.results[1]) = 1
    /\ RankOf(sq.dense, sq.results[2]) = 1
    /\ RankOf(sq.sparse, sq.results[2]) = 3

\* The query was answered from the collection the ingestion writes.
QueriedIngested ==
    /\ sq.pc = "done"
    /\ runs[Ingesting].pc # "idle"
    /\ get_collection_name(sq.folder_id) = NameOf(Ingesting)

\* What the query saw is neither what the collection held before the
\* ingestion nor the complete new point set.
SawTransient ==
    /\ sq.seen # runs[Ingesting].before
    /\ sq.seen # PointsOfRun(Ingesting)

\* C23: a query that sees a transient state of the collection of one
\* ingestion is answered after the clear step and before the last insert
\* batch of that ingestion, and a query answered after the ingestion has
\* completed sees the complete new point set.
C23_TransientWindow ==
    QueriedIngested =>
        /\ SawTransient => sq.at[Ingesting] \in {"embed", "upsert"}
        /\ sq.at[Ingesting] = "done" => sq.seen = PointsOfRun(Ingesting)

\* What holds of the code: a query answered after the ingestion has completed
\* sees every new point and nothing but new and earlier points, and before
\* the ingestion is entered or the clear step is reached it sees what the
\* collection held.
QuerySeesNoOtherPoints ==
    QueriedIngested =>
        /\ sq.at[Ingesting] = "done" =>
              /\ PointsOfRun(Ingesting) \subseteq sq.seen
              /\ sq.seen \subseteq runs[Ingesting].before \cup PointsOfRun(Ingesting)
        /\ sq.at[Ingesting] \in {"idle", "create", "delete"} =>
              sq.seen = runs[Ingesting].before

\* A query answered between the first and the second insert batch saw only
\* the first batch, the earlier points having been cleared.
SawFirstBatchOnly ==
    /\ QueriedIngested
    /\ sq.at[Ingesting] = "upsert"
    /\ runs[Ingesting].before # {}
    /\ Cardinality(sq.seen) = batch_size
    /\ sq.seen \subseteq PointsOfRun(Ingesting)

(***************************************************************************)
(* Claims about rerank_chunks                                              *)
(***************************************************************************)
\* C19: a call with at most top_k candidates returns the candidates as they
\* were given, in the same order, makes no call to the reranking service and
\* raises nothing.
C19_FewAreReturnedAsGiven ==
    (rr.pc # "call" /\ Len(rr.before) <= rr.top_k)
    => /\ rr.pc = "done"
       /\ rr.reranked = rr.before
       /\ rr.calls = <<>>

\* A returned call with exactly top_k candidates, two or more.
C19_Witness ==
    /\ rr.pc = "done"
    /\ Len(rr.before) = rr.top_k
    /\ rr.top_k >= 2
    /\ rr.reranked = rr.before

\* C20: a returned call with more than top_k candidates made one call to the
\* service and returns one entry per result of the service, in the service's
\* order and at most top_k of them; each entry is the candidate the result
\* points at with its text, score and metadata as given and the result's
\* relevance score added, and nothing else; the caller's list and its
\* entries are as they were.
C20_RerankedAreAnnotatedCopies ==
    (rr.pc = "done" /\ Len(rr.before) > rr.top_k)
    => /\ rr.calls = <<Call("rerank", "ok")>>
       /\ Len(rr.reranked) = Len(rr.response)
       /\ Len(rr.reranked) <= rr.top_k
       /\ \A j \in 1..Len(rr.reranked) :
             LET entry == rr.reranked[j]
                 cand  == rr.before[rr.response[j].index + 1]
             IN  /\ DOMAIN entry = DOMAIN cand \cup {"rerank_score"}
                 /\ \A fld \in DOMAIN cand : entry[fld] = cand[fld]
                 /\ entry.rerank_score = rr.response[j].relevance_score
       /\ rr.chunks = rr.before

\* A returned call in which the service put the last of four candidates
\* first and the first one second.
C20_Witness ==
    /\ rr.pc = "done"
    /\ Len(rr.before) = 4 /\ rr.top_k = 2
    /\ Len(rr.reranked) = 2
    /\ rr.reranked[1].text = rr.before[4].text
    /\ rr.reranked[2].text = rr.before[1].text

(***************************************************************************)
(* Claims about ask_question                                               *)
(***************************************************************************)
Invoked(svc)    == \E k \in 1..Len(calls) : calls[k].svc = svc
Outcome(svc, o) == \E k \in 1..Len(calls) : calls[k].svc = svc /\ calls[k].outcome = o
Faulted         == \E k \in 1..Len(calls) : calls[k].outcome # "ok"
Asked           == get_collection_name(question.folder_id)
IsCanned(resp)  ==
    /\ resp.kind = "ok"
    /\ resp.answer = NoInfoAnswer
    /\ resp.citations = <<>>
IsError(resp)   ==
    /\ resp.kind = "error"
    /\ {"answer", "citations"} \cap DOMAIN resp = {}

\* C4: a question asked of a collection that does not exist, or that holds
\* nothing, with no upstream failure, is answered with the canned
\* no-information response and no citations, not with an error.
C4_NotFoundIsSoft ==
    ( /\ apc \in {"done", "error"}
      /\ ~Outcome("embed", "fault") /\ ~Outcome("query", "fault")
      /\ (~collections[Asked].exists \/ collections[Asked].points = {}) )
    => (Len(response) = 1 /\ IsCanned(response[1]))

\* C12: a question with empty query text is rejected at once: no embedding,
\* retrieval, reranking or generation call is ever made for it.
C12_EmptyRejected ==
    question.question = <<>> => (calls = <<>> /\ apc \in {"start", "error"})

\* C5: once retrieval has returned no candidates the run is in its successful
\* terminal state with the canned answer and no citations, and neither the
\* reranking nor the generation service is ever invoked.
C5_EmptyShortCircuits ==
    (Outcome("query", "ok") /\ initial_chunks = <<>>)
    => /\ apc = "done"
       /\ Len(response) = 1 /\ IsCanned(response[1])
       /\ ~Invoked("rerank") /\ ~Invoked("generate")

C5_Witness ==
    /\ apc = "done"
    /\ Outcome("query", "ok")
    /\ initial_chunks = <<>>
    /\ collections[Asked].exists

\* C6: a failed retrieval, reranking or generation call ends the run in one
\* reported error that carries no answer text and no citations; the citation
\* step after a successful generation always completes with a response.
C6_FailureAborts ==
    /\ [](Faulted => (apc = "error" /\ Len(response) = 1 /\ IsError(response[1])))
    /\ [](apc = "error" => (Faulted /\ Len(response) = 1 /\ IsError(response[1])))
    /\ [][apc = "generated" =>
            /\ apc' = "done"
            /\ Len(response') = 1
            /\ response'[1].kind = "ok"
            /\ response'[1].answer = answer]_vars

C6_Witness ==
    /\ apc = "error"
    /\ Outcome("generate", "fault")
    /\ Invoked("rerank")

\* The place of an external service in the pipeline.
Stage(svc) ==
    CASE svc = "embed" -> 1 [] svc = "query" -> 2
      [] svc = "rerank" -> 3 [] svc = "generate" -> 4

\* C22: the external calls of a run are made in the order retrieval (the
\* embedding, then the index), reranking, generation, each at most once; a
\* failed call is the last call of the run; generation is invoked only after
\* retrieval and reranking returned and the context was built from the
\* reranked candidates; the citations are produced only after generation
\* returned.
C22_CallOrder ==
    /\ \A i, j \in 1..Len(calls) :
          i < j => /\ Stage(calls[i].svc) < Stage(calls[j].svc)
                   /\ calls[i].outcome = "ok"
    /\ Invoked("query") => Outcome("embed", "ok")
    /\ Invoked("rerank") => Outcome("query", "ok")
    /\ Invoked("generate") =>
          /\ Outcome("query", "ok")
          /\ Invoked("rerank") => Outcome("rerank", "ok")
          /\ Len(initial_chunks) > RerankTopK => Invoked("rerank")
          /\ apc \in {"generated", "done", "error"}
          /\ reranked_chunks # <<>>
          /\ context = build_context_by_document(reranked_chunks).context
          /\ doc_map = build_context_by_document(reranked_chunks).doc_map
    /\ (apc = "done" /\ initial_chunks # <<>>) =>
          /\ Outcome("generate", "ok")
          /\ calls[Len(calls)].svc = "generate"
    /\ apc \in {"start", "searched", "reranked", "built"} => response = <<>>

\* A run that retrieved, reranked, generated and returned citations.
C22_Witness ==
    /\ apc = "done"
    /\ Len(calls) = 4
    /\ calls[3] = Call("rerank", "ok")
    /\ calls[4] = Call("generate", "ok")
    /\ response[1].citations # <<>>

\* Some marker [n] occurs in the text: an opening bracket, one or more digits
\* that read n, a closing bracket.
Bracketed(txt, n) ==
    \E i, j \in 1..Len(txt) :
        /\ i + 1 < j
        /\ txt[i] = "[" /\ txt[j] = "]"
        /\ \A k \in (i + 1)..(j - 1) : txt[k] \in Digits
        /\ ParseInt(SubSeq(txt, i + 1, j - 1)) = n

\* C7: the citations are exactly one per distinct bracketed number of the
\* answer that is a key of the reference map, in ascending order of the
\* number; other numbers are dropped and no error is reported.
C7_CitationsExact ==
    apc = "done" =>
        /\ Len(response) = 1 /\ response[1].kind = "ok"
        /\ LET cites == response[1].citations
               S     == {n \in DOMAIN doc_map : Bracketed(answer, n)}
           IN  /\ Len(cites) = Cardinality(S)
               /\ \E f \in [1..Len(cites) -> S] :
                    /\ \A a, b \in 1..Len(cites) : a < b => f[a] < f[b]
                    /\ \A a \in 1..Len(cites) :
                         /\ cites[a].file_id = doc_map[f[a]].file_id
                         /\ cites[a].file_name = doc_map[f[a]].file_name
                         /\ cites[a].web_view_link = doc_map[f[a]].web_view_link
                         /\ cites[a].text = doc_map[f[a]].text

\* The answer cites 2 before 1, and both numbers are keys of the map.
C7_Witness ==
    /\ apc = "done"
    /\ Len(response[1].citations) = 2
    /\ answer = <<"[", "2", "]", "[", "1", "]">>

\* The position at which source f is first seen in the candidate list.
FirstSeen(chs, f) ==
    CHOOSE k \in 1..Len(chs) :
        /\ chs[k].metadata.file_id = f
        /\ \A j \in 1..(k - 1) : chs[j].metadata.file_id # f

\* C8: the N distinct sources of the candidates get the numbers 1..N in the
\* order they are first seen; the keys of the reference map are exactly the
\* labels of the blocks of the context; no source has two numbers.
C8_ReferenceNumbers ==
    apc = "built" =>
        LET chs     == reranked_chunks
            sources == { chs[k].metadata.file_id : k \in 1..Len(chs) }
        IN  /\ DOMAIN doc_map = 1..Cardinality(sources)
            /\ \A n \in DOMAIN doc_map :
                 /\ doc_map[n].file_id \in sources
                 /\ Cardinality({ g \in sources :
                       FirstSeen(chs, g) < FirstSeen(chs, doc_map[n].file_id) }) = n - 1
            /\ { context[k].label : k \in 1..Len(context) } = DOMAIN doc_map
            /\ \A a, b \in 1..Len(context) :
                 context[a].label = context[b].label => a = b
            /\ \A n, m \in DOMAIN doc_map :
                 doc_map[n].file_id = doc_map[m].file_id => n = m

\* Three candidates of two sources, the first source seen again after the second.
C8_Witness ==
    /\ apc = "built"
    /\ Len(reranked_chunks) >= 3
    /\ reranked_chunks[1].metadata.file_id = reranked_chunks[3].metadata.file_id
    /\ reranked_chunks[1].metadata.file_id # reranked_chunks[2].metadata.file_id
    /\ Len(context) = 2

\* C24: in a successful run every citation names the source of a reranked
\* candidate whose text is in the context given to the generation service,
\* no two citations name the same source, and there are no more citations
\* than distinct sources in that context.
C24_CitationsFromContext ==
    (apc = "done" /\ Len(response) = 1 /\ response[1].kind = "ok") =>
        LET cites   == response[1].citations
            chs     == reranked_chunks
            placed  == { k \in 1..Len(chs) :
                           \E b \in 1..Len(context) :
                           \E t \in 1..Len(context[b].texts) :
                               context[b].texts[t] = chs[k].text }
            sources == { chs[k].metadata.file_id : k \in placed }
        IN  /\ \A a \in 1..Len(cites) : cites[a].file_id \in sources
            /\ \A a, b \in 1..Len(cites) :
                  cites[a].file_id = cites[b].file_id => a = b
            /\ Len(cites) <= Cardinality(sources)

\* A run that cited both sources of a context built from more candidates
\* than sources.
C24_Witness ==
    /\ apc = "done"
    /\ Outcome("generate", "ok")
    /\ Len(response[1].citations) = 2
    /\ Len(reranked_chunks) > 2
    /\ Len(context) = 2

====
